---- MODULE Spec2Model ----
(***************************************************************************)
(* Progress reconciliation store of kompanion_py: the in-memory           *)
(* ProgressRepository (domains/sync/repository.py) and the ProgressService *)
(* in front of it (domains/sync/service.py).                               *)
(*                                                                         *)
(* UUIDs are small values (documents are naturals, because the store       *)
(* sorts on them; users and devices are strings, only ever compared for    *)
(* equality).  A percentage is an integer number of hundredths.  A         *)
(* datetime is the tuple <<year, month, day, hour, minute, second>> and is *)
(* compared field by field, as Python compares naive datetimes.            *)
(***************************************************************************)
EXTENDS Integers, Sequences, FiniteSets, TLC

VARIABLES
    progress_entries,   \* InMemoryProgressRepository._progress_entries
    last,               \* the last completed call: operation, argument, result, store before it
    ncalls,             \* number of completed calls
    submitted,          \* every Progress value handed to save_progress so far
    thread,             \* per thread: program position and locals of the running call
    published,          \* every list that has been bound to _progress_entries
    books,              \* InMemoryBookRepository._books
    books_by_doc_id,    \* InMemoryBookRepository._books_by_doc_id
    book_order_for_listing  \* InMemoryBookRepository._book_order_for_listing

library == <<books, books_by_doc_id, book_order_for_listing>>

vars == <<progress_entries, last, ncalls, submitted, thread, published, books, books_by_doc_id,
          book_order_for_listing>>

\* ---------------------------------------------------------------- bounds
MaxCalls == 3       \* save_progress calls in a run of Spec
MaxSubmits == 2     \* submit_progress calls in a run of SpecService
MaxSaves == 2       \* save_progress calls in a run of SpecReads

\* ---------------------------------------------------------------- values
\* Python's None where a UUID or a str is optional, and where a Progress is.
None == "None"
NoProgress == [none |-> TRUE]

Users == {"U1", "U2"}
Documents == {1, 2}
Devices == {None, "D1"}
DeviceName == "KOReader"

\* Unix timestamps: 1970-01-01 00:33:20 and 1970-01-02 00:10:00, the later
\* instant having the earlier time of day.
Timestamps == {2000, 87000}

\* ------------------------------------------------------------- datetime
\* Days since 1970-01-01 to the proleptic Gregorian <<year, month, day>>.
CivilFromDays(days) ==
    LET z   == days + 719468
        era == z \div 146097
        doe == z - era * 146097
        yoe == (doe - doe \div 1460 + doe \div 36524 - doe \div 146096) \div 365
        doy == doe - (365 * yoe + yoe \div 4 - yoe \div 100)
        mp  == (5 * doy + 2) \div 153
        d   == doy - (153 * mp + 2) \div 5 + 1
        m   == IF mp < 10 THEN mp + 3 ELSE mp - 9
        y   == yoe + era * 400 + (IF m <= 2 THEN 1 ELSE 0)
    IN  <<y, m, d>>

\* Mutant of utcfromtimestamp: the time of day on 1970-01-01, whatever the
\* day of the instant.
utcfromtimestamp_time_of_day(timestamp_int) ==
    LET rem == timestamp_int % 86400
    IN  <<1970, 1, 1, rem \div 3600, (rem % 3600) \div 60, rem % 60>>

\* datetime.utcfromtimestamp(timestamp_int)
utcfromtimestamp(timestamp_int) ==
    LET date == CivilFromDays(timestamp_int \div 86400)
        rem  == timestamp_int % 86400
    IN  <<date[1], date[2], date[3], rem \div 3600, (rem % 3600) \div 60, rem % 60>>

RECURSIVE TupleLess(_, _, _)
TupleLess(a, b, i) ==
    IF i > Len(a) THEN FALSE
    ELSE IF a[i] < b[i] THEN TRUE
    ELSE IF a[i] > b[i] THEN FALSE
    ELSE TupleLess(a, b, i + 1)

\* datetime.__lt__ and datetime.__ge__ on naive datetimes
DtLess(a, b) == TupleLess(a, b, 1)
\* Mutants of DtGeq: the comparison turned round, and made strict.
DtGeqReversed(a, b) == ~DtLess(b, a)
DtGeqStrict(a, b) == DtLess(b, a)

DtGeq(a, b) == ~DtLess(a, b)

\* ------------------------------------------------------------- Progress
Progress(document_id, user_id, percentage, progress_detail, device_name, device_id, timestamp) ==
    [document_id |-> document_id, user_id |-> user_id, percentage |-> percentage,
     progress_detail |-> progress_detail, device_name |-> device_name,
     device_id |-> device_id, timestamp |-> timestamp]

\* Progress.copy(deep=True): a new object with equal fields
Copy(p) == p

\* Every Progress value the repository is called with in this model.
ProgressInputs ==
    { Progress(d, u, pct, "p", DeviceName, dev, utcfromtimestamp(t)) :
        d \in Documents, u \in Users, pct \in {30, 60}, dev \in Devices, t \in Timestamps }

\* ------------------------------------------- InMemoryProgressRepository
\* Mutant of SaveLoop: "remove old, add new" without looking at the
\* timestamps.
RECURSIVE SaveLoopNoCompare(_, _, _, _, _)
SaveLoopNoCompare(entries, progress, i, new_entries, updated) ==
    IF i > Len(entries) THEN <<new_entries, updated>>
    ELSE LET entry == entries[i] IN
         IF entry.document_id = progress.document_id /\ entry.device_id = progress.device_id
         THEN IF ~updated
              THEN SaveLoopNoCompare(entries, progress, i + 1,
                                     Append(new_entries, Copy(progress)), TRUE)
              ELSE SaveLoopNoCompare(entries, progress, i + 1, new_entries, updated)
         ELSE SaveLoopNoCompare(entries, progress, i + 1, Append(new_entries, entry), updated)

\* Mutant of SaveLoop: an entry is taken for the submission's own as soon
\* as the document matches, whatever the device.
RECURSIVE SaveLoopAnyDevice(_, _, _, _, _)
SaveLoopAnyDevice(entries, progress, i, new_entries, updated) ==
    IF i > Len(entries) THEN <<new_entries, updated>>
    ELSE LET entry == entries[i] IN
         IF entry.document_id = progress.document_id
         THEN IF DtLess(progress.timestamp, entry.timestamp)
              THEN SaveLoopAnyDevice(entries, progress, i + 1, Append(new_entries, entry), updated)
              ELSE IF ~updated
                   THEN SaveLoopAnyDevice(entries, progress, i + 1,
                                          Append(new_entries, Copy(progress)), TRUE)
                   ELSE SaveLoopAnyDevice(entries, progress, i + 1, new_entries, updated)
         ELSE SaveLoopAnyDevice(entries, progress, i + 1, Append(new_entries, entry), updated)

\* Mutant of SaveLoop: a missing device_id (None) on either side matches
\* every device of the document.
RECURSIVE SaveLoopNoneIsWildcard(_, _, _, _, _)
SaveLoopNoneIsWildcard(entries, progress, i, new_entries, updated) ==
    IF i > Len(entries) THEN <<new_entries, updated>>
    ELSE LET entry == entries[i] IN
         IF /\ entry.document_id = progress.document_id
            /\ (entry.device_id = progress.device_id \/ entry.device_id = None
                    \/ progress.device_id = None)
         THEN IF DtLess(progress.timestamp, entry.timestamp)
              THEN SaveLoopNoneIsWildcard(entries, progress, i + 1,
                                          Append(new_entries, entry), updated)
              ELSE IF ~updated
                   THEN SaveLoopNoneIsWildcard(entries, progress, i + 1,
                                               Append(new_entries, Copy(progress)), TRUE)
                   ELSE SaveLoopNoneIsWildcard(entries, progress, i + 1, new_entries, updated)
         ELSE SaveLoopNoneIsWildcard(entries, progress, i + 1, Append(new_entries, entry), updated)

\* Mutant of SaveLoop: no entry is ever replaced, so that the submission is
\* appended and the store keeps the whole history of a key.
SaveLoopKeepsHistory(entries, progress, i, new_entries, updated) ==
    <<new_entries \o SubSeq(entries, i, Len(entries)), updated>>

\* The loop of save_progress over self._progress_entries, from entry i on:
\* <<new_entries, updated>> when the loop ends.
RECURSIVE SaveLoop(_, _, _, _, _)
SaveLoop(entries, progress, i, new_entries, updated) ==
    IF i > Len(entries) THEN <<new_entries, updated>>
    ELSE LET entry == entries[i] IN
         IF entry.document_id = progress.document_id /\ entry.device_id = progress.device_id
         THEN IF DtGeq(progress.timestamp, entry.timestamp)
              THEN IF ~updated
                   THEN SaveLoop(entries, progress, i + 1, Append(new_entries, Copy(progress)), TRUE)
                   ELSE SaveLoop(entries, progress, i + 1, new_entries, updated)
              ELSE SaveLoop(entries, progress, i + 1, Append(new_entries, entry), updated)
         ELSE SaveLoop(entries, progress, i + 1, Append(new_entries, entry), updated)

\* The list save_progress binds to self._progress_entries.
NewEntries(entries, progress) ==
    LET r == SaveLoop(entries, progress, 1, <<>>, FALSE)
    IN  IF ~r[2] THEN Append(r[1], Copy(progress)) ELSE r[1]

\* The value save_progress returns.
SaveResult(entries, progress) == Copy(progress)

\* list.sort(key=lambda p: p.timestamp, reverse=True): stable, so entries
\* of equal timestamp keep their order.  Insert x behind every element
\* whose timestamp is not less than x's.
RECURSIVE InsertByTimestampDesc(_, _)
InsertByTimestampDesc(sorted, x) ==
    IF sorted = <<>> THEN <<x>>
    ELSE IF DtLess(Head(sorted).timestamp, x.timestamp) THEN <<x>> \o sorted
    ELSE <<Head(sorted)>> \o InsertByTimestampDesc(Tail(sorted), x)

\* Mutant of SortByTimestampDesc: reverse=True forgotten, so the list is
\* left in ascending order of timestamp.
RECURSIVE SortByTimestampAsc(_)
SortByTimestampAsc(s) ==
    IF s = <<>> THEN <<>>
    ELSE LET rest == SortByTimestampAsc(Tail(s))
             x    == Head(s)
             le   == SelectSeq(rest, LAMBDA e : DtLess(e.timestamp, x.timestamp))
             gt   == SelectSeq(rest, LAMBDA e : ~DtLess(e.timestamp, x.timestamp))
         IN  le \o <<x>> \o gt

RECURSIVE SortByTimestampDesc(_)
SortByTimestampDesc(s) ==
    IF s = <<>> THEN <<>>
    ELSE InsertByTimestampDesc(SortByTimestampDesc(SubSeq(s, 1, Len(s) - 1)), s[Len(s)])

Matches(p, document_id, device_id) == p.document_id = document_id /\ p.device_id = device_id

get_progress_for_document_and_device(entries, document_id, device_id) ==
    LET doc_device_progress == SelectSeq(entries, LAMBDA p : Matches(p, document_id, device_id))
    IN  IF doc_device_progress = <<>> THEN NoProgress
        ELSE Copy(SortByTimestampDesc(doc_device_progress)[1])

get_latest_progress(entries, document_id, user_id) ==
    LET user_doc_progress ==
            SelectSeq(entries, LAMBDA p : p.document_id = document_id /\ p.user_id = user_id)
    IN  IF user_doc_progress = <<>> THEN NoProgress
        ELSE Copy(SortByTimestampDesc(user_doc_progress)[1])

\* Mutant of DocTsLess: the timestamp left out of the sort key.
DocTsLessDocumentOnly(a, b) == a.document_id < b.document_id

\* The sort key (p.document_id, p.timestamp) of get_all_progress_for_user,
\* compared as Python compares tuples.
DocTsLess(a, b) ==
    \/ a.document_id < b.document_id
    \/ a.document_id = b.document_id /\ DtLess(a.timestamp, b.timestamp)

\* list.sort(key=lambda p: (p.document_id, p.timestamp), reverse=True)
RECURSIVE InsertByDocTsDesc(_, _)
InsertByDocTsDesc(sorted, x) ==
    IF sorted = <<>> THEN <<x>>
    ELSE IF DocTsLess(Head(sorted), x) THEN <<x>> \o sorted
    ELSE <<Head(sorted)>> \o InsertByDocTsDesc(Tail(sorted), x)

RECURSIVE SortByDocTsDesc(_)
SortByDocTsDesc(s) ==
    IF s = <<>> THEN <<>>
    ELSE InsertByDocTsDesc(SortByDocTsDesc(SubSeq(s, 1, Len(s) - 1)), s[Len(s)])

get_all_progress_for_user(entries, user_id) ==
    LET user_progress == SelectSeq(entries, LAMBDA p : p.user_id = user_id)
    IN  SortByDocTsDesc([i \in 1..Len(user_progress) |-> Copy(user_progress[i])])

\* ---------------------------------------------------------- sequential
NoCall == [op |-> "none"]

NoThreads == <<>>

Init ==
    /\ progress_entries = <<>>
    /\ last = NoCall
    /\ ncalls = 0
    /\ submitted = {}
    /\ thread = NoThreads
    /\ published = {<<>>}
    /\ books = <<>>
    /\ books_by_doc_id = <<>>
    /\ book_order_for_listing = <<>>

\* One whole call of save_progress(progress).
SaveProgress(progress) ==
    /\ ncalls < MaxCalls
    /\ progress_entries' = NewEntries(progress_entries, progress)
    /\ last' = [op |-> "save_progress", progress |-> progress,
                ret |-> SaveResult(progress_entries, progress),
                before |-> progress_entries]
    /\ ncalls' = ncalls + 1
    /\ submitted' = submitted \cup {progress}
    /\ published' = published \cup {progress_entries'}
    /\ UNCHANGED <<thread, library>>

Next == \E progress \in ProgressInputs : SaveProgress(progress)

Spec == Init /\ [][Next]_vars

\* ------------------------------------------------- store claims (Spec)
Saved == last.op = "save_progress"

\* The canonical entry of the key of progress in a list of entries.
Canonical(entries, progress) ==
    get_progress_for_document_and_device(entries, progress.document_id, progress.device_id)

SubmittedFor(document_id, device_id) ==
    { p \in submitted : Matches(p, document_id, device_id) }

\* C1: the store holds at most one entry for each (document_id, device_id)
\* pair, whatever save_progress calls were made.
C1_AtMostOneEntryPerKey ==
    \A d \in Documents, dev \in Devices :
        Len(SelectSeq(progress_entries, LAMBDA p : Matches(p, d, dev))) <= 1

\* C2: the device lookup of a key returns an entry carrying the maximum
\* timestamp ever submitted for the key, by whichever user (null exactly
\* when nothing was submitted for it); and a save whose timestamp is
\* strictly greater than the canonical one makes the lookup return it.
C2_LookupHasMaxSubmittedTimestamp ==
    /\ \A d \in Documents, dev \in Devices :
          LET got == get_progress_for_document_and_device(progress_entries, d, dev)
              S   == SubmittedFor(d, dev)
          IN  IF S = {} THEN got = NoProgress
              ELSE /\ got \in S
                   /\ \A p \in S : ~DtLess(got.timestamp, p.timestamp)
    /\ Saved =>
          LET old == Canonical(last.before, last.progress)
          IN  (old # NoProgress /\ DtLess(old.timestamp, last.progress.timestamp))
                  => Canonical(progress_entries, last.progress) = last.progress

\* C2 witness: a key with submissions of two users and two timestamps,
\* the last call being the older one, so the lookup is not the last call.
C2_Witness ==
    /\ Saved
    /\ \E p \in SubmittedFor(last.progress.document_id, last.progress.device_id) :
          /\ p.user_id # last.progress.user_id
          /\ DtLess(last.progress.timestamp, p.timestamp)
          /\ Canonical(progress_entries, last.progress) = p

\* C3: a save whose timestamp equals the canonical timestamp of its key
\* becomes canonical: the lookup returns the later call's content.
C3_TieLaterCallWins ==
    Saved =>
        LET old == Canonical(last.before, last.progress)
            got == Canonical(progress_entries, last.progress)
        IN  (old # NoProgress /\ old.timestamp = last.progress.timestamp)
                => /\ got = last.progress
                   /\ got.percentage = last.progress.percentage
                   /\ got.progress_detail = last.progress.progress_detail

\* C3 witness: a tie whose second call carries another percentage, with an
\* older entry of the key also in the store.
C3_Witness ==
    /\ Saved
    /\ LET old == Canonical(last.before, last.progress)
       IN  /\ old # NoProgress
           /\ old.timestamp = last.progress.timestamp
           /\ old.percentage # last.progress.percentage
    /\ Len(SelectSeq(last.before, LAMBDA p : Matches(p, last.progress.document_id,
                                                     last.progress.device_id))) >= 2
    /\ Canonical(progress_entries, last.progress).percentage = last.progress.percentage

\* C4: a save whose timestamp is strictly less than the canonical timestamp
\* of its key leaves the lookup of the key as it was.
C4_RegressionKeepsCanonical ==
    Saved =>
        LET old == Canonical(last.before, last.progress)
        IN  (old # NoProgress /\ DtLess(last.progress.timestamp, old.timestamp))
                => Canonical(progress_entries, last.progress) = old

C4_Witness ==
    /\ Saved
    /\ LET old == Canonical(last.before, last.progress)
       IN  /\ old # NoProgress
           /\ DtLess(last.progress.timestamp, old.timestamp)
           /\ old.percentage # last.progress.percentage
           /\ Canonical(progress_entries, last.progress) = old

\* Some entry of the key of progress has a strictly greater timestamp.
HasNewer(entries, progress) ==
    \E i \in 1..Len(entries) :
        /\ Matches(entries[i], progress.document_id, progress.device_id)
        /\ DtLess(progress.timestamp, entries[i].timestamp)

\* C5: a save for a key that already holds an entry with a strictly greater
\* timestamp leaves the stored entries, and every user's listing, unchanged.
C5_StaleSaveLeavesStoreUnchanged ==
    (Saved /\ HasNewer(last.before, last.progress)) =>
        /\ progress_entries = last.before
        /\ \A u \in Users :
              get_all_progress_for_user(progress_entries, u)
                  = get_all_progress_for_user(last.before, u)

\* C6: save_progress returns the entry that is canonical for the key after
\* the call: the stored one, not its argument, when the argument is older.
C6_ReturnsCanonicalEntry ==
    Saved => last.ret = Canonical(progress_entries, last.progress)

\* The entries of a key, in store order.
KeyEntries(entries, document_id, device_id) ==
    SelectSeq(entries, LAMBDA p : Matches(p, document_id, device_id))

\* C11: saving the same submission twice in a row leaves exactly one stored
\* entry for its key, and the second call leaves the store as the first
\* call left it.
C11_SameSubmissionTwice ==
    [][ (Saved /\ ncalls' = ncalls + 1 /\ last'.progress = last.progress)
            => /\ progress_entries' = progress_entries
               /\ Len(KeyEntries(progress_entries', last.progress.document_id,
                                 last.progress.device_id)) = 1 ]_vars

\* The store content half of C11 alone.
C11_SecondCallChangesNothing ==
    [][ (Saved /\ ncalls' = ncalls + 1 /\ last'.progress = last.progress)
            => progress_entries' = progress_entries ]_vars

\* The stored entries of a document and a user, as a set.
UserDocEntries(entries, document_id, user_id) ==
    { entries[i] : i \in { j \in 1..Len(entries) :
        entries[j].document_id = document_id /\ entries[j].user_id = user_id } }

\* C12: get_latest_progress(document_id, user_id) is null when no stored
\* entry has both identifiers, and otherwise a stored entry of that document
\* and user whose timestamp is the maximum among them, across all devices.
C12_LatestAcrossDevices ==
    \A d \in Documents, u \in Users :
        LET got == get_latest_progress(progress_entries, d, u)
            S   == UserDocEntries(progress_entries, d, u)
        IN  IF S = {} THEN got = NoProgress
            ELSE /\ got \in S
                 /\ \A p \in S : ~DtLess(got.timestamp, p.timestamp)

\* C12 witness: a user's document with an older entry of device D1 stored
\* before a newer entry of another device, and the lookup returns the newer.
C12_Witness ==
    \E d \in Documents, u \in Users :
        LET mine == SelectSeq(progress_entries,
                              LAMBDA p : p.document_id = d /\ p.user_id = u)
        IN  /\ Len(mine) = 2
            /\ mine[1].device_id = "D1" /\ mine[2].device_id # "D1"
            /\ DtLess(mine[1].timestamp, mine[2].timestamp)
            /\ get_latest_progress(progress_entries, d, u) = mine[2]

\* C13: save_progress for one key leaves the device lookup of every other
\* key as it was.
C13_OtherKeysUnchanged ==
    Saved =>
        \A d \in Documents, dev \in Devices :
            ~Matches(last.progress, d, dev)
                => get_progress_for_document_and_device(progress_entries, d, dev)
                     = get_progress_for_document_and_device(last.before, d, dev)

\* C13 witness: a newer submission of another device for a document whose
\* D1 entry is stored, the D1 lookup still returning that entry.
C13_Witness ==
    /\ Saved
    /\ last.progress.device_id # "D1"
    /\ LET old == get_progress_for_document_and_device(last.before,
                                                       last.progress.document_id, "D1")
       IN  /\ old # NoProgress
           /\ DtLess(old.timestamp, last.progress.timestamp)
           /\ get_progress_for_document_and_device(progress_entries,
                                                   last.progress.document_id, "D1") = old

\* The entries that have a device_id, and those that have none, in store order.
WithDevice(entries) == SelectSeq(entries, LAMBDA p : p.device_id # None)
WithoutDevice(entries) == SelectSeq(entries, LAMBDA p : p.device_id = None)

\* C14: a submission without device_id lives in the slot (document_id,
\* None): saving it replaces or removes no entry that has a device_id, and
\* saving an entry with a device_id replaces or removes no entry without one.
C14_NoneSlotIsDistinct ==
    Saved =>
        IF last.progress.device_id = None
        THEN WithDevice(progress_entries) = WithDevice(last.before)
        ELSE WithoutDevice(progress_entries) = WithoutDevice(last.before)

\* C14 witness: a document holding an entry of D1 and one without device,
\* the last save being a newer submission without device for that document.
C14_Witness ==
    /\ Saved
    /\ last.progress.device_id = None
    /\ \E i \in 1..Len(last.before) :
          /\ last.before[i].document_id = last.progress.document_id
          /\ last.before[i].device_id = "D1"
          /\ ~DtLess(last.progress.timestamp, last.before[i].timestamp)
    /\ \E i \in 1..Len(last.before) :
          Matches(last.before[i], last.progress.document_id, None)
    /\ WithDevice(progress_entries) = WithDevice(last.before)

\* The entries of a user, in store order.
UserEntries(entries, user_id) == SelectSeq(entries, LAMBDA p : p.user_id = user_id)

SeqToSet(s) == { s[i] : i \in 1..Len(s) }

\* A listing holds exactly the stored entries of the user.
ExactlyOf(listing, entries, user_id) ==
    /\ Len(listing) = Len(UserEntries(entries, user_id))
    /\ SeqToSet(listing) = SeqToSet(UserEntries(entries, user_id))

\* C15 as stated: get_all_progress_for_user returns exactly the user's
\* entries, by document_id in ascending order and, within a document_id, by
\* timestamp descending.
C15_ListingByDocumentAscending ==
    \A u \in Users :
        LET listing == get_all_progress_for_user(progress_entries, u)
        IN  /\ ExactlyOf(listing, progress_entries, u)
            /\ \A i, j \in 1..Len(listing) :
                  i < j => \/ listing[i].document_id < listing[j].document_id
                           \/ /\ listing[i].document_id = listing[j].document_id
                              /\ ~DtLess(listing[i].timestamp, listing[j].timestamp)

\* C15 amended: get_all_progress_for_user returns exactly the user's
\* entries, by document_id in descending order and, within a document_id, by
\* timestamp descending.
C15_ListingByDocumentDescending ==
    \A u \in Users :
        LET listing == get_all_progress_for_user(progress_entries, u)
        IN  /\ ExactlyOf(listing, progress_entries, u)
            /\ \A i, j \in 1..Len(listing) :
                  i < j => \/ listing[i].document_id > listing[j].document_id
                           \/ /\ listing[i].document_id = listing[j].document_id
                              /\ ~DtLess(listing[i].timestamp, listing[j].timestamp)

\* C15 witness: a user whose stored entries are, in store order, an older
\* and a newer entry of document 1 and an entry of document 2; the listing
\* is that list turned round.
C15_Witness ==
    \E u \in Users :
        LET mine    == UserEntries(progress_entries, u)
            listing == get_all_progress_for_user(progress_entries, u)
        IN  /\ Len(mine) = 3
            /\ mine[1].document_id = 1 /\ mine[2].document_id = 1 /\ mine[3].document_id = 2
            /\ DtLess(mine[1].timestamp, mine[2].timestamp)
            /\ listing = <<mine[3], mine[2], mine[1]>>

\* ------------------------------------------------------ ProgressService
\* Percentages (in hundredths) and progress details handed to
\* submit_progress: below 0, inside [0, 1] and above 1; absent and given.
Percentages == {-10, 30, 120}
Details == {None, "page 5"}

\* progress_detail or ""
OrEmpty(progress_detail) == IF progress_detail = None \/ progress_detail = "" THEN "" ELSE progress_detail

\* The Progress that submit_progress builds and hands to save_progress.
progress_data(user_id, document_id, percentage, progress_detail, device_name, device_id, timestamp_int) ==
    LET dt_timestamp == utcfromtimestamp(timestamp_int)
    IN  Progress(document_id, user_id, percentage, OrEmpty(progress_detail), device_name,
                 device_id, dt_timestamp)

\* One whole call of ProgressService.submit_progress: it builds the record
\* and delegates to save_progress; nothing in it raises for these inputs.
SubmitProgress(user_id, document_id, percentage, progress_detail, device_name, device_id, timestamp_int) ==
    LET data == progress_data(user_id, document_id, percentage, progress_detail, device_name,
                              device_id, timestamp_int)
    IN  /\ ncalls < MaxSubmits
        /\ progress_entries' = NewEntries(progress_entries, data)
        /\ last' = [op |-> "submit_progress", progress |-> data,
                    user_id |-> user_id, document_id |-> document_id,
                    device_id |-> device_id, device_name |-> device_name,
                    percentage |-> percentage, progress_detail |-> progress_detail,
                    timestamp_int |-> timestamp_int, raised |-> FALSE,
                    ret |-> SaveResult(progress_entries, data),
                    before |-> progress_entries]
        /\ ncalls' = ncalls + 1
        /\ submitted' = submitted \cup {data}
        /\ published' = published \cup {progress_entries'}
        /\ UNCHANGED <<thread, library>>

NextService ==
    \E u \in Users, d \in Documents, pct \in Percentages, detail \in Details,
       dev \in Devices, t \in Timestamps :
        SubmitProgress(u, d, pct, detail, DeviceName, dev, t)

SpecService == Init /\ [][NextService]_vars

\* ------------------------------------------- service claims (SpecService)
InRange(percentage) == 0 <= percentage /\ percentage <= 100

\* C10: submit_progress with a percentage below 0 or above 1 fails with a
\* validation error and stores nothing, so that no stored entry ever has a
\* percentage outside [0, 1].
C10_PercentageValidated ==
    /\ \A i \in 1..Len(progress_entries) : InRange(progress_entries[i].percentage)
    /\ (last.op = "submit_progress" /\ ~InRange(last.percentage))
          => last.raised /\ progress_entries = last.before

\* ------------------------------------------------------------ concurrent
\* Request handlers running on threads: each writer runs one save_progress
\* call, each reader one lookup.  A call touches self._progress_entries
\* twice at most: save_progress evaluates it once for its loop (line 60)
\* and rebinds it to the list it has built (line 78); a lookup evaluates it
\* once for its comprehension.  A list is never changed once it is bound,
\* so what a thread has loaded stays as it was.  There is no lock.
Writers == {"w1", "w2"}
Readers == {"r1"}

ConcurrentInputs ==
    { Progress(d, "U1", 30, "p", DeviceName, dev, utcfromtimestamp(t)) :
        d \in Documents, dev \in Devices, t \in Timestamps }

\* The store the threads start on: empty, or holding one saved entry.
InitialStores == {<<>>} \cup { <<p>> : p \in ConcurrentInputs }

Queries ==
    { [name |-> "get_progress_for_document_and_device", document_id |-> d, device_id |-> dev] :
        d \in Documents, dev \in Devices }
    \cup { [name |-> "get_latest_progress", document_id |-> d, user_id |-> "U1"] :
             d \in Documents }
    \cup { [name |-> "get_all_progress_for_user", user_id |-> "U1"] }

\* The result of a lookup on the list it has loaded.
Lookup(query, entries) ==
    CASE query.name = "get_progress_for_document_and_device" ->
            get_progress_for_document_and_device(entries, query.document_id, query.device_id)
      [] query.name = "get_latest_progress" ->
            get_latest_progress(entries, query.document_id, query.user_id)
      [] query.name = "get_all_progress_for_user" ->
            get_all_progress_for_user(entries, query.user_id)

InitConcurrent ==
    /\ progress_entries \in InitialStores
    /\ last = [op |-> "none", before |-> progress_entries]
    /\ ncalls = 0
    /\ submitted = {}
    /\ thread = [t \in Writers \cup Readers |-> [pc |-> "idle"]]
    /\ published = {progress_entries}
    /\ books = <<>>
    /\ books_by_doc_id = <<>>
    /\ book_order_for_listing = <<>>

\* save_progress, up to the evaluation of self._progress_entries at line 60.
WriterLoad(w, progress) ==
    /\ thread[w].pc = "idle"
    /\ thread' = [thread EXCEPT ![w] = [pc |-> "loaded", progress |-> progress,
                                         entries |-> progress_entries]]
    /\ UNCHANGED <<progress_entries, last, ncalls, submitted, published, library>>

\* Mutant of WriterStore: "remove old, add new" on the shared list, seen
\* between its two halves.
WriterStoreRemoveOld(w) ==
    /\ thread[w].pc = "loaded"
    /\ progress_entries' =
          SelectSeq(thread[w].entries,
                    LAMBDA e : ~Matches(e, thread[w].progress.document_id,
                                        thread[w].progress.device_id))
    /\ published' = published \cup {NewEntries(thread[w].entries, thread[w].progress)}
    /\ submitted' = submitted \cup {thread[w].progress}
    /\ ncalls' = ncalls + 1
    /\ thread' = [thread EXCEPT ![w] = [pc |-> "returned", progress |-> thread[w].progress,
                                         ret |-> SaveResult(thread[w].entries, thread[w].progress)]]
    /\ UNCHANGED <<last, library>>

\* save_progress, from its loop over the loaded list to its return: the
\* list built from what was loaded is bound to self._progress_entries.
WriterStore(w) ==
    /\ thread[w].pc = "loaded"
    /\ progress_entries' = NewEntries(thread[w].entries, thread[w].progress)
    /\ published' = published \cup {NewEntries(thread[w].entries, thread[w].progress)}
    /\ submitted' = submitted \cup {thread[w].progress}
    /\ ncalls' = ncalls + 1
    /\ thread' = [thread EXCEPT ![w] = [pc |-> "returned", progress |-> thread[w].progress,
                                         ret |-> SaveResult(thread[w].entries, thread[w].progress)]]
    /\ UNCHANGED <<last, library>>

\* A lookup, up to the evaluation of self._progress_entries.
ReaderLoad(r, query) ==
    /\ thread[r].pc = "idle"
    /\ thread' = [thread EXCEPT ![r] = [pc |-> "loaded", query |-> query,
                                         entries |-> progress_entries]]
    /\ UNCHANGED <<progress_entries, last, ncalls, submitted, published, library>>

\* A lookup, from its comprehension over the loaded list to its return.
ReaderReturn(r) ==
    /\ thread[r].pc = "loaded"
    /\ thread' = [thread EXCEPT ![r] = [pc |-> "returned", query |-> thread[r].query,
                                         result |-> Lookup(thread[r].query, thread[r].entries)]]
    /\ UNCHANGED <<progress_entries, last, ncalls, submitted, published, library>>

NextConcurrent ==
    \/ \E w \in Writers, progress \in ConcurrentInputs : WriterLoad(w, progress)
    \/ \E w \in Writers : WriterStore(w)
    \/ \E r \in Readers, query \in Queries : ReaderLoad(r, query)
    \/ \E r \in Readers : ReaderReturn(r)

SpecConcurrent == InitConcurrent /\ [][NextConcurrent]_vars

\* --------------------------------------- concurrency claims (SpecConcurrent)
AllWritersReturned == \A w \in Writers : thread[w].pc = "returned"

SameKey(p, q) == p.document_id = q.document_id /\ p.device_id = q.device_id

\* C7: when all writers wrote the same key, the canonical entry of the key
\* is, once they have all returned, the one with the maximum timestamp among
\* their submissions and the entry stored before.
C7_NoLostUpdateSameKey ==
    (AllWritersReturned /\ \A v, w \in Writers : SameKey(thread[v].progress, thread[w].progress))
        => LET any   == thread[CHOOSE w \in Writers : TRUE].progress
               cands == { thread[w].progress : w \in Writers }
                        \cup { last.before[i] : i \in { j \in 1..Len(last.before) :
                                                          SameKey(last.before[j], any) } }
               got   == Canonical(progress_entries, any)
           IN  /\ got \in cands
               /\ \A c \in cands : ~DtLess(got.timestamp, c.timestamp)

\* C8: when the writers wrote different keys, every submitted entry is in
\* the store once they have all returned, and so is every entry stored
\* before under a key that none of them wrote.
C8_NoLostUpdateDifferentKeys ==
    (AllWritersReturned
       /\ \A v, w \in Writers : v # w => ~SameKey(thread[v].progress, thread[w].progress))
        => LET stored == { progress_entries[i] : i \in 1..Len(progress_entries) }
           IN  /\ \A w \in Writers : thread[w].progress \in stored
               /\ \A i \in 1..Len(last.before) :
                     (\A w \in Writers : ~SameKey(last.before[i], thread[w].progress))
                         => last.before[i] \in stored

\* C9: the result of a lookup that runs next to save_progress calls is its
\* result on the store as it was at the start or after some whole
\* save_progress call, never on a partly applied upsert.
C9_LookupSeesWholeCalls ==
    \A r \in Readers :
        thread[r].pc = "returned"
            => \E entries \in published : thread[r].result = Lookup(thread[r].query, entries)

\* C9 witness: a lookup that loaded the list one writer had bound, while
\* another writer was inside save_progress and bound its own list before the
\* lookup returned: the result is that of neither the first nor the last store.
C9_Witness ==
    \E r \in Readers :
        /\ thread[r].pc = "returned"
        /\ AllWritersReturned
        /\ thread[r].result # Lookup(thread[r].query, last.before)
        /\ thread[r].result # Lookup(thread[r].query, progress_entries)

\* ----------------------------------------------- InMemoryStatsRepository
\* <<year, month, day>> to days since 1970-01-01.
DaysFromCivil(date) ==
    LET y   == IF date[2] <= 2 THEN date[1] - 1 ELSE date[1]
        era == y \div 400
        yoe == y - era * 400
        mp  == IF date[2] > 2 THEN date[2] - 3 ELSE date[2] + 9
        doy == (153 * mp + 2) \div 5 + date[3] - 1
        doe == yoe * 365 + yoe \div 4 - yoe \div 100 + doy
    IN  era * 146097 + doe - 719468

\* (later - earlier).total_seconds() of two datetimes
SecondsBetween(earlier, later) ==
    LET secs(dt) == DaysFromCivil(<<dt[1], dt[2], dt[3]>>) * 86400
                        + dt[4] * 3600 + dt[5] * 60 + dt[6]
    IN  secs(later) - secs(earlier)

MAX_SESSION_GAP_SECONDS == 2 * 60 * 60

\* The position of document_id among the keys of a dict kept as the
\* sequence of its values in insertion order; 0 when it is no key.
IndexOfDocument(latest, document_id) ==
    IF \E i \in 1..Len(latest) : latest[i].document_id = document_id
    THEN CHOOSE i \in 1..Len(latest) : latest[i].document_id = document_id
    ELSE 0

\* Mutant of LatestLoop: the entry with the greatest percentage is kept for
\* a document, not the one with the greatest timestamp.
RECURSIVE LatestLoopByPercentage(_, _, _)
LatestLoopByPercentage(all_progress, i, latest) ==
    IF i > Len(all_progress) THEN latest
    ELSE LET p   == all_progress[i]
             idx == IndexOfDocument(latest, p.document_id)
         IN  IF idx = 0 THEN LatestLoopByPercentage(all_progress, i + 1, Append(latest, p))
             ELSE IF p.percentage > latest[idx].percentage
                  THEN LatestLoopByPercentage(all_progress, i + 1, [latest EXCEPT ![idx] = p])
                  ELSE LatestLoopByPercentage(all_progress, i + 1, latest)

\* Mutant of LatestLoop: an entry of equal timestamp replaces the one kept
\* (>= for >).
RECURSIVE LatestLoopNotStrict(_, _, _)
LatestLoopNotStrict(all_progress, i, latest) ==
    IF i > Len(all_progress) THEN latest
    ELSE LET p   == all_progress[i]
             idx == IndexOfDocument(latest, p.document_id)
         IN  IF idx = 0 THEN LatestLoopNotStrict(all_progress, i + 1, Append(latest, p))
             ELSE IF ~DtLess(p.timestamp, latest[idx].timestamp)
                  THEN LatestLoopNotStrict(all_progress, i + 1, [latest EXCEPT ![idx] = p])
                  ELSE LatestLoopNotStrict(all_progress, i + 1, latest)

\* The loop that fills latest_progress_per_book, from entry i on.
RECURSIVE LatestLoop(_, _, _)
LatestLoop(all_progress, i, latest) ==
    IF i > Len(all_progress) THEN latest
    ELSE LET p   == all_progress[i]
             idx == IndexOfDocument(latest, p.document_id)
         IN  IF idx = 0 THEN LatestLoop(all_progress, i + 1, Append(latest, p))
             ELSE IF DtLess(latest[idx].timestamp, p.timestamp)
                  THEN LatestLoop(all_progress, i + 1, [latest EXCEPT ![idx] = p])
                  ELSE LatestLoop(all_progress, i + 1, latest)

\* latest_progress_per_book.values(), in insertion order
latest_progress_per_book(all_progress) == LatestLoop(all_progress, 1, <<>>)

\* The set finished_book_ids when get_total_books_finished returns its
\* length (empty on the early return).
FinishedBookIds(entries, user_id, finish_threshold) ==
    LET latest == latest_progress_per_book(get_all_progress_for_user(entries, user_id))
    IN  { latest[i].document_id : i \in { j \in 1..Len(latest) :
            latest[j].percentage >= finish_threshold } }

\* Mutant of get_total_books_finished: computed over the whole store, not
\* over the snapshot of the user.
get_total_books_finished_whole_store(entries, user_id, finish_threshold) ==
    IF entries = <<>> THEN 0
    ELSE LET latest == latest_progress_per_book(entries)
         IN  Cardinality({ latest[i].document_id : i \in { j \in 1..Len(latest) :
                             latest[j].percentage >= finish_threshold } })

get_total_books_finished(entries, user_id, finish_threshold) ==
    LET all_progress == get_all_progress_for_user(entries, user_id)
    IN  IF all_progress = <<>> THEN 0
        ELSE LET latest == latest_progress_per_book(all_progress)
                 finished_book_ids ==
                     { latest[i].document_id : i \in { j \in 1..Len(latest) :
                         latest[j].percentage >= finish_threshold } }
             IN  Cardinality(finished_book_ids)

\* list.sort(key=lambda p: p.timestamp): stable and ascending.
RECURSIVE InsertByTimestamp(_, _)
InsertByTimestamp(sorted, x) ==
    IF sorted = <<>> THEN <<x>>
    ELSE IF DtLess(x.timestamp, Head(sorted).timestamp) THEN <<x>> \o sorted
    ELSE <<Head(sorted)>> \o InsertByTimestamp(Tail(sorted), x)

RECURSIVE SortByTimestamp(_)
SortByTimestamp(s) ==
    IF s = <<>> THEN <<>>
    ELSE InsertByTimestamp(SortByTimestamp(SubSeq(s, 1, Len(s) - 1)), s[Len(s)])

\* The keys of progress_by_doc in insertion order.
RECURSIVE DocumentsInOrder(_, _, _)
DocumentsInOrder(all_progress, i, docs) ==
    IF i > Len(all_progress) THEN docs
    ELSE IF \E k \in 1..Len(docs) : docs[k] = all_progress[i].document_id
         THEN DocumentsInOrder(all_progress, i + 1, docs)
         ELSE DocumentsInOrder(all_progress, i + 1, Append(docs, all_progress[i].document_id))

\* Mutant of PairTime: the test that the percentage increased left out.
PairTimeAnyPercentage(earlier, later) ==
    LET time_diff == SecondsBetween(earlier.timestamp, later.timestamp)
    IN  IF time_diff < MAX_SESSION_GAP_SECONDS /\ time_diff > 0 THEN time_diff ELSE 0

\* What one pair of consecutive entries adds to total_time.
PairTime(earlier, later) ==
    LET time_diff == SecondsBetween(earlier.timestamp, later.timestamp)
    IN  IF time_diff < MAX_SESSION_GAP_SECONDS /\ time_diff > 0
        THEN IF later.percentage > earlier.percentage THEN time_diff ELSE 0
        ELSE 0

\* The loop over range(len(progresses) - 1), from index i on.
RECURSIVE PairsLoop(_, _)
PairsLoop(progresses, i) ==
    IF i > Len(progresses) - 1 THEN 0
    ELSE PairTime(progresses[i], progresses[i + 1]) + PairsLoop(progresses, i + 1)

\* The loop over progress_by_doc.items(), from key k on.
RECURSIVE DocsLoop(_, _, _)
DocsLoop(all_progress, docs, k) ==
    IF k > Len(docs) THEN 0
    ELSE LET progresses == SelectSeq(all_progress, LAMBDA p : p.document_id = docs[k])
         IN  (IF Len(progresses) < 2 THEN 0 ELSE PairsLoop(SortByTimestamp(progresses), 1))
                 + DocsLoop(all_progress, docs, k + 1)

\* The estimate in seconds (a timedelta in the code).
get_total_reading_time_estimate(entries, user_id) ==
    LET all_progress == get_all_progress_for_user(entries, user_id)
    IN  IF all_progress = <<>> \/ Len(all_progress) < 2 THEN 0
        ELSE LET sorted == SortByTimestamp(all_progress)
             IN  DocsLoop(sorted, DocumentsInOrder(sorted, 1, <<>>), 1)

\* ------------------------------------------------- reading statistics
\* The samples <<timestamp_int, percentage>> that devices report: a
\* reading session of document A (1000 s, 2000 s, and 9300 s after a gap
\* of more than two hours), a sample with the percentage unchanged, one
\* exactly two hours after the first that finishes the book, and two
\* samples either side of midnight, the earlier with nothing read yet.
Samples ==
    { <<1000, 10>>, <<2000, 10>>, <<2000, 30>>, <<9300, 35>>, <<8200, 95>>,
      <<85000, 0>>, <<87000, 35>> }

\* One whole call of ProgressService.submit_progress with a sample.
SubmitSample(user_id, document_id, device_id, sample) ==
    LET data == progress_data(user_id, document_id, sample[2], None, DeviceName, device_id, sample[1])
    IN  /\ ncalls < MaxCalls
        /\ progress_entries' = NewEntries(progress_entries, data)
        /\ last' = [op |-> "submit_progress", progress |-> data,
                    user_id |-> user_id, document_id |-> document_id,
                    device_id |-> device_id, device_name |-> DeviceName,
                    percentage |-> sample[2], progress_detail |-> None,
                    timestamp_int |-> sample[1], raised |-> FALSE,
                    ret |-> SaveResult(progress_entries, data),
                    before |-> progress_entries]
        /\ ncalls' = ncalls + 1
        /\ submitted' = submitted \cup {data}
        /\ published' = published \cup {progress_entries'}
        /\ UNCHANGED <<thread, library>>

\* The reader "U1" reports from two devices on two documents; another
\* user reports once on a key the reader uses too.
NextStats ==
    \/ \E d \in Documents, dev \in Devices, sample \in Samples : SubmitSample("U1", d, dev, sample)
    \/ SubmitSample("U2", 1, "D1", <<8200, 95>>)

SpecStats == Init /\ [][NextStats]_vars

\* ------------------------------------------ statistics claims (SpecStats)
\* The three submissions of the reading-time scenario.
SampleA1 == progress_data("U1", 1, 10, None, DeviceName, "D1", 1000)
SampleA2 == progress_data("U1", 1, 30, None, DeviceName, "D1", 2000)
SampleA3 == progress_data("U1", 1, 35, None, DeviceName, "D1", 9300)

\* The store holds the outcome of A1 then A2 and nothing else.
AfterTwoSamples ==
    /\ ncalls = 2 /\ submitted = {SampleA1, SampleA2}
    /\ last.op = "submit_progress" /\ last.progress = SampleA2
\* ... and of A1, A2 then A3.
AfterThreeSamples ==
    /\ ncalls = 3 /\ submitted = {SampleA1, SampleA2, SampleA3}
    /\ last.op = "submit_progress" /\ last.progress = SampleA3
    /\ last.before = NewEntries(NewEntries(<<>>, SampleA1), SampleA2)

\* C18 as stated: after (1000 s, 0.10) and (2000 s, 0.30) for document A
\* from device D1 the estimate is 1000 s, and it still is after (9300 s,
\* 0.35) from D1.
C18_EstimateIs1000 ==
    /\ AfterTwoSamples => get_total_reading_time_estimate(progress_entries, "U1") = 1000
    /\ AfterThreeSamples => get_total_reading_time_estimate(progress_entries, "U1") = 1000

\* C18 amended: each submission from D1 replaces the entry of (A, D1), so
\* the store holds one entry of the user after two submissions and after
\* three, and the estimate is 0 s both times.
C18_EstimateIsZero ==
    /\ AfterTwoSamples =>
          /\ progress_entries = <<SampleA2>>
          /\ get_total_reading_time_estimate(progress_entries, "U1") = 0
    /\ AfterThreeSamples =>
          /\ progress_entries = <<SampleA3>>
          /\ get_total_reading_time_estimate(progress_entries, "U1") = 0

C18_Witness == AfterThreeSamples /\ last.before = <<SampleA2>>

\* The snapshot a statistics query computes over.
Snapshot(user_id) == get_all_progress_for_user(progress_entries, user_id)

\* What the pair (earlier, later) of consecutive entries counts for: the
\* seconds between them when that is strictly positive and strictly below
\* two hours and the percentage strictly increased, zero otherwise.
Contribution(earlier, later) ==
    LET delta == SecondsBetween(earlier.timestamp, later.timestamp)
    IN  IF delta > 0 /\ delta < 7200 /\ later.percentage > earlier.percentage THEN delta ELSE 0

\* The arrangements of the snapshot's entries of one document in ascending
\* timestamp order (more than one when two entries share a timestamp), as
\* sequences of positions in the snapshot.
AscendingOrders(all, document_id) ==
    LET idx == { i \in 1..Len(all) : all[i].document_id = document_id }
    IN  { f \in [1..Cardinality(idx) -> idx] :
            /\ \A j, k \in DOMAIN f : j # k => f[j] # f[k]
            /\ \A k \in 1..(Cardinality(idx) - 1) :
                  ~DtLess(all[f[k + 1]].timestamp, all[f[k]].timestamp) }

RECURSIVE OrderSum(_, _, _)
OrderSum(all, f, k) ==
    IF k >= Len(f) THEN 0
    ELSE Contribution(all[f[k]], all[f[k + 1]]) + OrderSum(all, f, k + 1)

\* The totals over a set of documents, one ascending order chosen for each.
RECURSIVE Totals(_, _)
Totals(all, docs) ==
    IF docs = {} THEN {0}
    ELSE LET d == CHOOSE x \in docs : TRUE
         IN  { OrderSum(all, f, 1) + rest :
                 f \in AscendingOrders(all, d), rest \in Totals(all, docs \ {d}) }

\* C19: get_total_reading_time_estimate is the sum, over the documents of
\* the user's snapshot, of the contributions of the pairs of consecutive
\* entries in ascending timestamp order; it is zero for a user with fewer
\* than two entries, and a document with fewer than two entries adds zero.
C19_EstimateIsSumOfSessions ==
    \A u \in Users :
        LET all  == Snapshot(u)
            docs == { all[i].document_id : i \in 1..Len(all) }
            est  == get_total_reading_time_estimate(progress_entries, u)
        IN  /\ est \in Totals(all, docs)
            /\ Len(all) < 2 => est = 0

\* The reader has three entries of one document, of which one pair of
\* consecutive entries counts and the other does not.
C19_Witness ==
    LET all == Snapshot("U1")
    IN  /\ Len(all) = 3
        /\ \A i \in 1..3 : all[i].document_id = all[1].document_id
        /\ get_total_reading_time_estimate(progress_entries, "U1") > 0
        /\ \E f \in AscendingOrders(all, all[1].document_id) :
              \E k \in 1..2 : /\ Contribution(all[f[k]], all[f[k + 1]]) = 0
                               /\ DtLess(all[f[k]].timestamp, all[f[k + 1]].timestamp)

\* finish_threshold arguments, in hundredths: the default 0.95, and 0.30.
Thresholds == {30, 95}

\* The positions in the snapshot of the entries of a document that have
\* its maximum timestamp (more than one when devices report the same
\* second).
MaxTimestampEntries(all, document_id) ==
    { i \in 1..Len(all) :
        /\ all[i].document_id = document_id
        /\ \A j \in 1..Len(all) :
              all[j].document_id = document_id => ~DtLess(all[i].timestamp, all[j].timestamp) }

\* C20: get_total_books_finished counts the documents of the user whose
\* entry with the maximum timestamp has percentage >= finish_threshold;
\* entries with an earlier timestamp do not count.  Where two entries of a
\* document share the maximum timestamp either may be the representative.
C20_FinishedCountsRepresentatives ==
    \A u \in Users, th \in Thresholds :
        LET all   == Snapshot(u)
            docs  == { all[i].document_id : i \in 1..Len(all) }
            n     == get_total_books_finished(progress_entries, u, th)
            every == { d \in docs : \A i \in MaxTimestampEntries(all, d) : all[i].percentage >= th }
            some  == { d \in docs : \E i \in MaxTimestampEntries(all, d) : all[i].percentage >= th }
        IN  Cardinality(every) <= n /\ n <= Cardinality(some)

\* The reader has two documents with an entry at 0.95: one is finished,
\* the other has a later entry below the threshold and is not counted.
C20_Witness ==
    LET all == Snapshot("U1")
    IN  /\ get_total_books_finished(progress_entries, "U1", 95) = 1
        /\ \A d \in Documents : \E i \in 1..Len(all) :
              all[i].document_id = d /\ all[i].percentage >= 95
        /\ \E d \in Documents : \A i \in MaxTimestampEntries(all, d) : all[i].percentage < 95

\* ------------------------------------------- ProgressService getters
\* A raised ProgressNotFoundError, as the value of the call that raised it.
ProgressNotFoundError == [raises |-> "ProgressNotFoundError"]

\* Mutant of get_document_progress: the raise that the code has commented
\* out (service.py:49) put back.
get_document_progress_raising(entries, user_id, document_id) ==
    LET progress == get_latest_progress(entries, document_id, user_id)
    IN  IF progress = NoProgress THEN ProgressNotFoundError ELSE progress

get_document_progress(entries, user_id, document_id) ==
    LET progress == get_latest_progress(entries, document_id, user_id)
    IN  IF progress = NoProgress THEN NoProgress ELSE progress

get_all_user_progress(entries, user_id) == get_all_progress_for_user(entries, user_id)

\* Mutant of get_device_specific_progress: the latest entry of the
\* document, whatever device reported it.
get_device_specific_progress_any_device(entries, document_id, device_id) ==
    LET doc_progress == SelectSeq(entries, LAMBDA p : p.document_id = document_id)
    IN  IF doc_progress = <<>> THEN NoProgress ELSE Copy(SortByTimestampDesc(doc_progress)[1])

get_device_specific_progress(entries, document_id, device_id) ==
    get_progress_for_document_and_device(entries, document_id, device_id)

\* ------------------------------- InMemoryStatsRepository, other queries
\* Mutant of get_total_books_started: every document with an entry counts,
\* whatever its percentages.
get_total_books_started_any(entries, user_id) ==
    LET all_progress == get_all_progress_for_user(entries, user_id)
    IN  Cardinality({ all_progress[i].document_id : i \in 1..Len(all_progress) })

get_total_books_started(entries, user_id) ==
    LET all_progress == get_all_progress_for_user(entries, user_id)
    IN  IF all_progress = <<>> THEN 0
        ELSE Cardinality({ all_progress[i].document_id : i \in { j \in 1..Len(all_progress) :
                             all_progress[j].percentage > 0 } })

\* BookRepository.get_book_by_id on a library that knows the books of the
\* ids in known: a copy of the book, or None.
Book(book_id) == [id |-> book_id, title |-> "book"]
NoBook == [none |-> TRUE]
get_book_by_id(known, book_id) == IF book_id \in known THEN Book(book_id) ELSE NoBook

\* Mutant of SortByPercentageDesc: the dict's values left in insertion
\* order.
SortByPercentageNone(s) == s

\* sorted(..., key=percentage, reverse=True): stable and descending.
RECURSIVE InsertByPercentageDesc(_, _)
InsertByPercentageDesc(sorted, x) ==
    IF sorted = <<>> THEN <<x>>
    ELSE IF Head(sorted).percentage < x.percentage THEN <<x>> \o sorted
    ELSE <<Head(sorted)>> \o InsertByPercentageDesc(Tail(sorted), x)

RECURSIVE SortByPercentageDesc(_)
SortByPercentageDesc(s) ==
    IF s = <<>> THEN <<>>
    ELSE InsertByPercentageDesc(SortByPercentageDesc(SubSeq(s, 1, Len(s) - 1)), s[Len(s)])

\* s[:limit]
SliceTo(s, limit) ==
    LET n == IF limit >= 0 THEN (IF limit < Len(s) THEN limit ELSE Len(s))
             ELSE (IF Len(s) + limit > 0 THEN Len(s) + limit ELSE 0)
    IN  SubSeq(s, 1, n)

\* The loop that fills result, from tuple i on.
RECURSIVE MostReadLoop(_, _, _)
MostReadLoop(known, tuples, i) ==
    IF i > Len(tuples) THEN <<>>
    ELSE LET book == get_book_by_id(known, tuples[i].document_id)
         IN  (IF book # NoBook THEN << <<book, tuples[i].percentage>> >> ELSE <<>>)
                 \o MostReadLoop(known, tuples, i + 1)

get_most_read_books(entries, known, user_id, limit) ==
    LET all_progress == get_all_progress_for_user(entries, user_id)
    IN  IF all_progress = <<>> THEN <<>>
        ELSE LET sorted_progress_tuples == SortByPercentageDesc(latest_progress_per_book(all_progress))
             IN  MostReadLoop(known, SliceTo(sorted_progress_tuples, limit), 1)

\* Mutant of period_key: the month key without its year ("%m").
period_key_no_year(timestamp, period) ==
    IF period = "month" THEN <<timestamp[2]>>
    ELSE IF period = "year" THEN <<timestamp[1]>>
    ELSE <<timestamp[1], timestamp[2], timestamp[3]>>

\* timestamp.strftime of "%Y-%m", "%Y" and "%Y-%m-%d", as the tuple of the
\* numbers in the string: strings of one format compare as these tuples.
period_key(timestamp, period) ==
    IF period = "month" THEN <<timestamp[1], timestamp[2]>>
    ELSE IF period = "year" THEN <<timestamp[1]>>
    ELSE <<timestamp[1], timestamp[2], timestamp[3]>>

\* sorted(activity.items()) on the keys ks.
RECURSIVE SortedItems(_, _)
SortedItems(ks, count) ==
    IF ks = {} THEN <<>>
    ELSE LET k == CHOOSE x \in ks : \A y \in ks \ {x} : TupleLess(x, y, 1)
         IN  << <<k, count[k]>> >> \o SortedItems(ks \ {k}, count)

\* Mutant of get_reading_activity_over_time: a book counts as finished
\* above 0.95 only (> for >=).
get_reading_activity_over_time_strict(entries, user_id, period) ==
    LET all_progress == get_all_progress_for_user(entries, user_id)
    IN  IF all_progress = <<>> THEN <<>>
        ELSE LET latest   == latest_progress_per_book(all_progress)
                 finished == { i \in 1..Len(latest) : latest[i].percentage > 95 }
                 ks       == { period_key(latest[i].timestamp, period) : i \in finished }
                 activity == [ k \in ks |-> Cardinality({ i \in finished :
                                   period_key(latest[i].timestamp, period) = k }) ]
             IN  SortedItems(ks, activity)

\* The dict returned, as the sequence of its items.
get_reading_activity_over_time(entries, user_id, period) ==
    LET all_progress == get_all_progress_for_user(entries, user_id)
    IN  IF all_progress = <<>> THEN <<>>
        ELSE LET latest   == latest_progress_per_book(all_progress)
                 finished == { i \in 1..Len(latest) : latest[i].percentage >= 95 }
                 ks       == { period_key(latest[i].timestamp, period) : i \in finished }
                 activity == [ k \in ks |-> Cardinality({ i \in finished :
                                   period_key(latest[i].timestamp, period) = k }) ]
             IN  SortedItems(ks, activity)

RECURSIVE SumPercentage(_)
SumPercentage(s) == IF s = <<>> THEN 0 ELSE Head(s).percentage + SumPercentage(Tail(s))

\* Mutant of get_average_read_percentage: one term for every entry of the
\* snapshot, not one for every document.
get_average_read_percentage_per_entry(entries, user_id) ==
    LET all_progress == get_all_progress_for_user(entries, user_id)
    IN  IF all_progress = <<>> THEN [none |-> TRUE]
        ELSE [total_percentage |-> SumPercentage(all_progress), len |-> Len(all_progress)]

\* Mutant of get_average_read_percentage: the two early returns of None
\* left out, so that an empty snapshot divides by zero.
get_average_read_percentage_unguarded(entries, user_id) ==
    LET latest == latest_progress_per_book(get_all_progress_for_user(entries, user_id))
    IN  IF Len(latest) = 0 THEN [raises |-> "ZeroDivisionError"]
        ELSE [total_percentage |-> SumPercentage(latest), len |-> Len(latest)]

\* The average as the fraction total_percentage / len, or None.
NoAverage == [none |-> TRUE]
get_average_read_percentage(entries, user_id) ==
    LET all_progress == get_all_progress_for_user(entries, user_id)
    IN  IF all_progress = <<>> THEN NoAverage
        ELSE LET latest == latest_progress_per_book(all_progress)
             IN  IF latest = <<>> THEN NoAverage
                 ELSE [total_percentage |-> SumPercentage(latest), len |-> Len(latest)]

\* ------------------------------------------------------------ reads
\* Reads between saves: every lookup of the repository, every getter of
\* the service and every query of the statistics repository, on every
\* store that a few save_progress calls build.
ReadInputs ==
    { Progress(d, "U1", 95, "p", DeviceName, dev, utcfromtimestamp(t)) :
        d \in Documents, dev \in Devices, t \in Timestamps }
    \cup { Progress(1, "U2", 30, "p", DeviceName, "D1", utcfromtimestamp(2000)) }

StoreLookups == {"get_latest_progress", "get_all_progress_for_user", "get_progress_for_document_and_device"}
ServiceGetters == {"get_document_progress", "get_all_user_progress", "get_device_specific_progress"}

ReadQueries ==
    { [name |-> n, document_id |-> d, user_id |-> u] :
        n \in {"get_latest_progress", "get_document_progress"}, d \in Documents, u \in Users }
    \cup { [name |-> n, user_id |-> u] :
             n \in {"get_all_progress_for_user", "get_all_user_progress", "get_total_books_started",
                    "get_total_reading_time_estimate", "get_average_read_percentage"},
             u \in Users }
    \cup { [name |-> n, document_id |-> d, device_id |-> dev] :
             n \in {"get_progress_for_document_and_device", "get_device_specific_progress"},
             d \in Documents, dev \in Devices }
    \cup { [name |-> "get_total_books_finished", user_id |-> u, finish_threshold |-> th] :
             u \in Users, th \in Thresholds }
    \cup { [name |-> "get_most_read_books", user_id |-> u, known |-> known, limit |-> limit] :
             u \in Users, known \in {{}, Documents}, limit \in {1, 5} }
    \cup { [name |-> "get_reading_activity_over_time", user_id |-> u, period |-> period] :
             u \in Users, period \in {"month", "year", "day"} }

\* What a read returns on the store entries.
Answer(query, entries) ==
    CASE query.name = "get_latest_progress" ->
            get_latest_progress(entries, query.document_id, query.user_id)
      [] query.name = "get_all_progress_for_user" ->
            get_all_progress_for_user(entries, query.user_id)
      [] query.name = "get_progress_for_document_and_device" ->
            get_progress_for_document_and_device(entries, query.document_id, query.device_id)
      [] query.name = "get_document_progress" ->
            get_document_progress(entries, query.user_id, query.document_id)
      [] query.name = "get_all_user_progress" ->
            get_all_user_progress(entries, query.user_id)
      [] query.name = "get_device_specific_progress" ->
            get_device_specific_progress(entries, query.document_id, query.device_id)
      [] query.name = "get_total_books_started" ->
            get_total_books_started(entries, query.user_id)
      [] query.name = "get_total_books_finished" ->
            get_total_books_finished(entries, query.user_id, query.finish_threshold)
      [] query.name = "get_total_reading_time_estimate" ->
            get_total_reading_time_estimate(entries, query.user_id)
      [] query.name = "get_most_read_books" ->
            get_most_read_books(entries, query.known, query.user_id, query.limit)
      [] query.name = "get_reading_activity_over_time" ->
            get_reading_activity_over_time(entries, query.user_id, query.period)
      [] query.name = "get_average_read_percentage" ->
            get_average_read_percentage(entries, query.user_id)

\* Mutant of StoreAfterRead: the sort of a lookup done in place on
\* self._progress_entries, not on the list the lookup has built.
StoreAfterReadSortedInPlace(query, entries) ==
    IF query.name \in {"get_all_progress_for_user", "get_all_user_progress"} \cup
                      { "get_total_books_started", "get_total_books_finished",
                        "get_most_read_books", "get_reading_activity_over_time",
                        "get_average_read_percentage" }
    THEN SortByDocTsDesc(entries)
    ELSE IF query.name = "get_total_reading_time_estimate" THEN SortByTimestamp(entries)
    ELSE SortByTimestampDesc(entries)

\* The list bound to self._progress_entries when a read returns.  No read
\* assigns the attribute; each lookup of the repository builds a new list
\* by a comprehension and sorts that list; what it returns are copies, so
\* that the sorts of the statistics queries act on lists of copies.
StoreAfterRead(query, entries) == entries

\* One whole read call.
Read(query) ==
    /\ progress_entries' = StoreAfterRead(query, progress_entries)
    /\ last' = [op |-> "read", query |-> query,
                ret |-> Answer(query, progress_entries),
                before |-> progress_entries]
    /\ published' = published \cup {progress_entries'}
    /\ UNCHANGED <<ncalls, submitted, thread, library>>

NextReads ==
    \/ \E progress \in ReadInputs : ncalls < MaxSaves /\ SaveProgress(progress)
    \/ \E query \in ReadQueries : Read(query)

SpecReads == Init /\ [][NextReads]_vars

\* ------------------------------------------------ read claims (SpecReads)
WasRead == last.op = "read"

\* No stored entry matches the last read's arguments.
NothingMatches ==
    LET q == last.query
        matching == SelectSeq(last.before, LAMBDA p :
            CASE q.name \in {"get_latest_progress", "get_document_progress"} ->
                    p.document_id = q.document_id /\ p.user_id = q.user_id
              [] q.name \in {"get_progress_for_document_and_device", "get_device_specific_progress"} ->
                    p.document_id = q.document_id /\ p.device_id = q.device_id
              [] OTHER -> p.user_id = q.user_id)
    IN  matching = <<>>

\* C16: a lookup of the store or a getter of the service that nothing
\* matches returns None (an empty list from the two listings), and none of
\* them raises, whatever the store holds.
C16_AbsenceIsNoneOrEmpty ==
    (WasRead /\ last.query.name \in StoreLookups \cup ServiceGetters) =>
        IF last.query.name \in {"get_all_progress_for_user", "get_all_user_progress"}
        THEN NothingMatches => last.ret = <<>>
        ELSE /\ last.ret # ProgressNotFoundError
             /\ NothingMatches => last.ret = NoProgress

\* get_document_progress was called for a user and document without an
\* entry, on a store that holds entries.
C16_Witness ==
    /\ WasRead /\ last.query.name = "get_document_progress"
    /\ NothingMatches /\ last.before # <<>>
    /\ last.ret = NoProgress

DocumentsWith(user_id, Test(_)) ==
    { d \in Documents : \E i \in 1..Len(progress_entries) :
        /\ progress_entries[i].user_id = user_id
        /\ progress_entries[i].document_id = d
        /\ Test(progress_entries[i]) }

\* C21: get_total_books_started is the number of distinct documents for
\* which the user has at least one stored entry with percentage > 0.
C21_StartedCountsPositiveDocuments ==
    \A u \in Users :
        get_total_books_started(progress_entries, u)
            = Cardinality(DocumentsWith(u, LAMBDA p : p.percentage > 0))

\* The reader has entries of two documents, all entries of one of them at
\* percentage 0, and one book counts as started.
C21_Witness ==
    /\ Cardinality(DocumentsWith("U1", LAMBDA p : TRUE)) = 2
    /\ Cardinality(DocumentsWith("U1", LAMBDA p : p.percentage > 0)) = 1
    /\ get_total_books_started(progress_entries, "U1") = 1

\* ------------------------------------------------------ most-read books
\* Three documents, read on two devices: samples <<timestamp_int,
\* percentage>> at 0.9, 0.4 and 0.99.
Shelf == {1, 2, 3}
ShelfSamples == { <<1000, 90>>, <<2000, 40>>, <<3000, 99>> }

NextRanking ==
    \/ \E d \in Shelf, dev \in Devices, sample \in ShelfSamples : SubmitSample("U1", d, dev, sample)
    \/ SubmitSample("U2", 3, "D1", <<3000, 99>>)

SpecRanking == Init /\ [][NextRanking]_vars

\* --------------------------------------- ranking claims (SpecRanking)
\* limit arguments (numbers of books), and the libraries of the Book
\* lookup: empty, complete, and two that each lack what the other knows.
Limits == {0, 1, 2, 5}
Libraries == { {}, {1, 2}, {3}, Shelf }

\* The percentage of a document's representative entry in the snapshot.
RepresentativePercentage(all, document_id) ==
    all[CHOOSE i \in MaxTimestampEntries(all, document_id) : TRUE].percentage

\* The rankings of the snapshot's documents by the percentage of their
\* representative, greatest first (more than one when percentages tie).
Rankings(all) ==
    LET docs == { all[i].document_id : i \in 1..Len(all) }
    IN  { s \in [1..Cardinality(docs) -> docs] :
            /\ \A j, k \in DOMAIN s : j # k => s[j] # s[k]
            /\ \A k \in 1..(Cardinality(docs) - 1) :
                  RepresentativePercentage(all, s[k]) >= RepresentativePercentage(all, s[k + 1]) }

\* The top limit documents of a ranking that the library resolves, each
\* with its book and percentage, in rank order.
TopResolved(all, ranking, known, limit) ==
    LET n    == IF limit < Len(ranking) THEN limit ELSE Len(ranking)
        kept == SelectSeq(SubSeq(ranking, 1, n), LAMBDA d : d \in known)
    IN  [ k \in 1..Len(kept) |-> <<Book(kept[k]), RepresentativePercentage(all, kept[k])>> ]

\* C22: get_most_read_books returns, for a ranking of the user's documents
\* by representative percentage, the (Book, percentage) pairs of those of
\* the top limit documents that the library resolves, in rank order; so it
\* has at most limit elements, with non-increasing percentages.  One
\* ranking serves every limit and every library.
C22_MostReadIsTopOfRanking ==
    \A u \in Users :
        \E ranking \in Rankings(Snapshot(u)) :
            \A known \in Libraries, limit \in Limits :
                LET result == get_most_read_books(progress_entries, known, u, limit)
                IN  /\ result = TopResolved(Snapshot(u), ranking, known, limit)
                    /\ Len(result) <= limit
                    /\ \A k \in 1..(Len(result) - 1) : result[k][2] >= result[k + 1][2]

\* The reader's three documents stand at 0.9, 0.4 and 0.99: limit 2 gives
\* the 0.99 document and then the 0.9 document, and only the latter when
\* the library does not know the former.
C22_Witness ==
    \E a, b, c \in Shelf :
        /\ Len(Snapshot("U1")) = 3
        /\ { <<p.document_id, p.percentage>> : p \in SeqToSet(Snapshot("U1")) }
              = { <<a, 90>>, <<b, 40>>, <<c, 99>> }
        /\ a # b /\ b # c /\ a # c
        /\ get_most_read_books(progress_entries, Shelf, "U1", 2)
              = << <<Book(c), 99>>, <<Book(a), 90>> >>
        /\ get_most_read_books(progress_entries, Shelf \ {c}, "U1", 2) = << <<Book(a), 90>> >>

\* ------------------------------------------------------ reading activity
\* Samples <<timestamp_int, percentage>> of two documents: finished at
\* exactly 0.95 on 1970-01-01, finished the day after, not finished an hour
\* later, finished on 1970-02-01, and finished on 1971-01-06.
ActivitySamples ==
    { <<1000, 95>>, <<87000, 99>>, <<90000, 94>>, <<2700000, 99>>, <<32000000, 99>> }

NextActivity ==
    \/ \E d \in Documents, dev \in Devices, sample \in ActivitySamples :
            SubmitSample("U1", d, dev, sample)
    \/ SubmitSample("U2", 1, "D1", <<87000, 99>>)

SpecActivity == Init /\ [][NextActivity]_vars

\* -------------------------------------- activity claims (SpecActivity)
Periods == {"year", "month", "day"}

\* The representative entry of a document in the snapshot.
RepresentativeEntry(all, document_id) ==
    all[CHOOSE i \in MaxTimestampEntries(all, document_id) : TRUE]

\* The calendar period of a datetime: its year, year and month, or year,
\* month and day.
CalendarPeriod(timestamp, period) ==
    SubSeq(timestamp, 1, CASE period = "year" -> 1 [] period = "month" -> 2 [] period = "day" -> 3)

\* The documents of the snapshot that are finished (representative at
\* 0.95 or more) in a calendar period.
FinishedIn(all, period, key) ==
    { d \in { all[i].document_id : i \in 1..Len(all) } :
        /\ RepresentativeEntry(all, d).percentage >= 95
        /\ CalendarPeriod(RepresentativeEntry(all, d).timestamp, period) = key }

\* C23: get_reading_activity_over_time maps each calendar period in which
\* a document of the user was finished to the number of documents finished
\* in it; other periods are absent and the keys ascend.
C23_ActivityCountsFinishedPerPeriod ==
    \A u \in Users, period \in Periods :
        LET all    == Snapshot(u)
            result == get_reading_activity_over_time(progress_entries, u, period)
            keys   == { result[k][1] : k \in 1..Len(result) }
        IN  /\ \A k \in 1..Len(result) :
                  /\ result[k][2] = Cardinality(FinishedIn(all, period, result[k][1]))
                  /\ result[k][2] > 0
            /\ \A k \in 1..(Len(result) - 1) : TupleLess(result[k][1], result[k + 1][1], 1)
            /\ \A i \in 1..Len(all) :
                  LET key == CalendarPeriod(all[i].timestamp, period)
                  IN  FinishedIn(all, period, key) # {} => key \in keys

\* Two documents of the reader are finished in January 1970, on different
\* days: one month bucket with count 2, and two day buckets.
C23_Witness ==
    /\ Cardinality(FinishedIn(Snapshot("U1"), "month", <<1970, 1>>)) = 2
    /\ get_reading_activity_over_time(progress_entries, "U1", "month") = << <<<<1970, 1>>, 2>> >>
    /\ get_reading_activity_over_time(progress_entries, "U1", "day")
          = << <<<<1970, 1, 1>>, 1>>, <<<<1970, 1, 2>>, 1>> >>

\* ---------------------------------------- average claims (SpecRanking)
\* The sum of the representative percentages of a set of documents.
RECURSIVE SumOfRepresentatives(_, _)
SumOfRepresentatives(all, docs) ==
    IF docs = {} THEN 0
    ELSE LET d == CHOOSE x \in docs : TRUE
         IN  RepresentativePercentage(all, d) + SumOfRepresentatives(all, docs \ {d})

\* C24: get_average_read_percentage is the sum of the representative
\* percentages of the user's documents over the number of those documents,
\* and None exactly when the store holds no entry of the user.
C24_AverageOverDocuments ==
    \A u \in Users :
        LET all  == Snapshot(u)
            docs == { all[i].document_id : i \in 1..Len(all) }
            avg  == get_average_read_percentage(progress_entries, u)
        IN  /\ avg = NoAverage <=> ~\E i \in 1..Len(progress_entries) : progress_entries[i].user_id = u
            /\ avg # NoAverage =>
                  /\ avg.len > 0
                  /\ avg.total_percentage * Cardinality(docs) = SumOfRepresentatives(all, docs) * avg.len

\* The reader has one document reported by two devices, at 0.9 and then at
\* 0.4, and another at 0.99: the average is (0.4 + 0.99) / 2.
C24_Witness ==
    LET all == Snapshot("U1")
        avg == get_average_read_percentage(progress_entries, "U1")
    IN  /\ Len(all) = 3
        /\ Cardinality({ all[i].document_id : i \in 1..3 }) = 2
        /\ { all[i].percentage : i \in 1..3 } = {90, 40, 99}
        /\ avg # NoAverage
        /\ avg.total_percentage * 2 = (40 + 99) * avg.len

\* ------------------------------------------- empty user (SpecReads)
HasEntries(user_id) ==
    \E i \in 1..Len(progress_entries) : progress_entries[i].user_id = user_id

\* C25: for a user without a stored entry, whatever the store holds of
\* other users, the two counts are 0, the reading time is zero, the
\* average is None, and the most-read list and the activity are empty.
C25_EmptyUserStatistics ==
    \A u \in Users : ~HasEntries(u) =>
        /\ get_total_books_started(progress_entries, u) = 0
        /\ \A th \in Thresholds : get_total_books_finished(progress_entries, u, th) = 0
        /\ get_total_reading_time_estimate(progress_entries, u) = 0
        /\ get_average_read_percentage(progress_entries, u) = NoAverage
        /\ \A known \in Libraries, limit \in Limits :
              get_most_read_books(progress_entries, known, u, limit) = <<>>
        /\ \A period \in Periods :
              get_reading_activity_over_time(progress_entries, u, period) = <<>>

\* The average was asked for a user without an entry while the store
\* holds entries of the other user, and None came back.
C25_Witness ==
    /\ WasRead /\ last.query.name = "get_average_read_percentage"
    /\ ~HasEntries(last.query.user_id)
    /\ progress_entries # <<>>
    /\ last.ret = NoAverage

\* ------------------------------- submitted record (SpecService)
\* Unix timestamps either side of a minute, an hour, a day, a month, a
\* year and 29 February 1972.
EdgeTimestamps ==
    { 0, 59, 60, 3599, 3600, 86399, 86400, 2678399, 2678400, 31535999, 31536000,
      68169599, 68169600, 68255999, 68256000 }

\* The Unix timestamp of a datetime: its seconds since 1970-01-01 00:00:00.
ToUnix(timestamp) == SecondsBetween(<<1970, 1, 1, 0, 0, 0>>, timestamp)

\* C26: the record that submit_progress stores has the submitted user,
\* document, device, device name and percentage, the progress detail or
\* "" when none was given, and a timestamp that orders as the submitted
\* integers do; the store compares it with the entries of its key as the
\* integers compare.  The order of the conversion on the calendar edges
\* does not depend on the store and is evaluated before the first call.
C26_StoredRecordIsTheSubmission ==
    /\ ncalls = 0 =>
          \A t1, t2 \in EdgeTimestamps \cup Timestamps :
              /\ t1 < t2 => DtLess(utcfromtimestamp(t1), utcfromtimestamp(t2))
              /\ t1 = t2 => utcfromtimestamp(t1) = utcfromtimestamp(t2)
    /\ last.op = "submit_progress" =>
          LET p == last.progress
          IN  /\ \E i \in 1..Len(progress_entries) : progress_entries[i] = p
              /\ p.user_id = last.user_id /\ p.document_id = last.document_id
              /\ p.device_id = last.device_id /\ p.device_name = last.device_name
              /\ p.percentage = last.percentage
              /\ p.progress_detail = (IF last.progress_detail = None THEN "" ELSE last.progress_detail)
              /\ ToUnix(p.timestamp) = last.timestamp_int
              /\ \A i \in 1..Len(last.before) :
                    LET entry == last.before[i]
                    IN  /\ DtLess(p.timestamp, entry.timestamp) <=>
                              last.timestamp_int < ToUnix(entry.timestamp)
                        /\ p.timestamp = entry.timestamp <=>
                              last.timestamp_int = ToUnix(entry.timestamp)

\* A submission without a progress detail, a day later than the stored
\* entry of its key but at an earlier time of day, has replaced that entry.
C26_Witness ==
    /\ last.op = "submit_progress" /\ last.progress_detail = None
    /\ last.timestamp_int = 87000
    /\ \E i \in 1..Len(last.before) :
          /\ last.before[i].document_id = last.document_id
          /\ last.before[i].device_id = last.device_id
          /\ ToUnix(last.before[i].timestamp) = 2000
          /\ ~\E j \in 1..Len(progress_entries) : progress_entries[j] = last.before[i]
    /\ \E j \in 1..Len(progress_entries) : progress_entries[j] = last.progress

\* ---------------------------------------------------------- aliasing
\* A caller keeps the Progress object it passed to save_progress and the
\* objects that save_progress and the lookups returned to it, and assigns
\* to a field of one of them afterwards.  The assignment reaches the store
\* through every stored entry that is that same object.
LookupQueries == { q \in ReadQueries : q.name \in StoreLookups }

\* The objects the caller holds from the last call: "argument" and
\* "returned" of a save, "returned" of a lookup that found something.
HeldObjects ==
    IF last.op = "save_progress" THEN {"argument", "returned"}
    ELSE IF last.op = "read"
         THEN IF last.query.name = "get_all_progress_for_user"
              THEN (IF last.ret # <<>> THEN {"returned"} ELSE {})
              ELSE (IF last.ret # NoProgress THEN {"returned"} ELSE {})
    ELSE {}

\* Mutant of StoredAliases: save_progress appends the object it was given
\* (no copy), so that the stored entry is the caller's argument.
StoredAliasesOfArgument(call, held, entries) ==
    IF call.op = "save_progress" /\ held = "argument"
    THEN { i \in 1..Len(entries) : entries[i] = call.progress }
    ELSE {}

\* The positions of the stored entries that are the very object the
\* caller holds.  save_progress appends progress.copy(deep=True) and
\* returns another copy; the lookups return copies of the entries or a
\* list of copies: no stored entry is an object the caller can reach.
StoredAliases(call, held, entries) == {}

\* The caller assigns to percentage of an object it holds.
MutateHeld(held, percentage) ==
    /\ held \in HeldObjects
    /\ progress_entries' =
          [ i \in 1..Len(progress_entries) |->
              IF i \in StoredAliases(last, held, progress_entries)
              THEN [progress_entries[i] EXCEPT !.percentage = percentage]
              ELSE progress_entries[i] ]
    /\ last' = [op |-> "mutate", held |-> held, call |-> last, before |-> progress_entries]
    /\ published' = published \cup {progress_entries'}
    /\ UNCHANGED <<ncalls, submitted, thread, library>>

NextAlias ==
    \/ \E progress \in ReadInputs : ncalls < MaxSaves /\ SaveProgress(progress)
    \/ \E query \in LookupQueries : Read(query)
    \/ \E held \in {"argument", "returned"} : MutateHeld(held, 77)

SpecAlias == Init /\ [][NextAlias]_vars

StatsQueries == { q \in ReadQueries : q.name \notin StoreLookups \cup ServiceGetters }

\* C28: a statistics query gives the same result on two stores that give
\* the user the same snapshot, whatever else the stores hold: the store
\* now, and every list the store has held before.
C28_StatsDependOnSnapshotOnly ==
    \A entries \in published, query \in StatsQueries :
        get_all_progress_for_user(entries, query.user_id) = Snapshot(query.user_id)
            => Answer(query, entries) = Answer(query, progress_entries)

\* A statistics query of a user with entries has run on a store that
\* differs, in another user's entries only, from a list the store held
\* before, and returned what it returns on that list.
C28_Witness ==
    /\ WasRead /\ last.query \in StatsQueries
    /\ Snapshot(last.query.user_id) # <<>>
    /\ \E entries \in published :
          /\ entries # progress_entries
          /\ get_all_progress_for_user(entries, last.query.user_id) = Snapshot(last.query.user_id)
          /\ last.ret = Answer(last.query, entries)

\* ------------------------------------- passthrough claims (SpecReads)
\* C29: on every store, get_document_progress returns what the store's
\* get_latest_progress returns for the same user and document, and
\* get_device_specific_progress what get_progress_for_document_and_device
\* returns for the same document and device.
C29_GettersPassThrough ==
    /\ \A u \in Users, d \in Documents :
          get_document_progress(progress_entries, u, d) = get_latest_progress(progress_entries, d, u)
    /\ \A d \in Documents, dev \in Devices :
          get_device_specific_progress(progress_entries, d, dev)
              = get_progress_for_document_and_device(progress_entries, d, dev)
    /\ (WasRead /\ last.query.name = "get_document_progress") =>
          last.ret = get_latest_progress(last.before, last.query.document_id, last.query.user_id)
    /\ (WasRead /\ last.query.name = "get_device_specific_progress") =>
          last.ret = get_progress_for_document_and_device(last.before, last.query.document_id,
                                                          last.query.device_id)

\* get_device_specific_progress has returned the entry of its device
\* while another device holds a later entry of the document.
C29_Witness ==
    /\ WasRead /\ last.query.name = "get_device_specific_progress"
    /\ last.ret # NoProgress
    /\ last.ret.device_id = last.query.device_id
    /\ \E i \in 1..Len(progress_entries) :
          /\ progress_entries[i].document_id = last.query.document_id
          /\ progress_entries[i].device_id # last.query.device_id
          /\ DtLess(last.ret.timestamp, progress_entries[i].timestamp)

\* -------------------------------------------- arrival order (Spec)
\* The store after the save_progress calls of a sequence of submissions,
\* from the empty store.
RECURSIVE SaveAll(_)
SaveAll(submissions) ==
    IF submissions = <<>> THEN <<>>
    ELSE NewEntries(SaveAll(SubSeq(submissions, 1, Len(submissions) - 1)),
                    submissions[Len(submissions)])

\* The orders in which a set of submissions can arrive.
ArrivalOrders(submissions) ==
    { s \in [1..Cardinality(submissions) -> submissions] :
        \A j, k \in DOMAIN s : j # k => s[j] # s[k] }

DistinctTimestamps(submissions) ==
    \A p, q \in submissions : p # q => p.timestamp # q.timestamp

\* C30: when the submissions saved so far have pairwise distinct
\* timestamps, get_all_progress_for_user returns for every user what it
\* would return had they been saved in any other order.
C30_ArrivalOrderIrrelevant ==
    (Cardinality(submitted) = ncalls /\ DistinctTimestamps(submitted)) =>
        \A s \in ArrivalOrders(submitted), u \in Users :
            get_all_progress_for_user(SaveAll(s), u) = get_all_progress_for_user(progress_entries, u)

\* --------------------------------------------- user isolation (Spec)
\* C31: a save_progress of one user leaves what every other user gets from
\* get_all_progress_for_user and from get_latest_progress as it was.
C31_OtherUsersUnaffected ==
    Saved =>
        \A u \in Users \ {last.progress.user_id} :
            /\ get_all_progress_for_user(progress_entries, u)
                  = get_all_progress_for_user(last.before, u)
            /\ \A d \in Documents :
                  get_latest_progress(progress_entries, d, u) = get_latest_progress(last.before, d, u)

\* ------------------------------ statistics and resume point (SpecStats)
\* C32: a document of the user is counted by get_total_books_finished
\* exactly when the percentage of get_latest_progress for it reaches the
\* threshold, also where devices report the same second.
C32_FinishedAgreesWithLatest ==
    \A u \in Users, th \in Thresholds :
        LET resumed == { d \in Documents :
                           /\ get_latest_progress(progress_entries, d, u) # NoProgress
                           /\ get_latest_progress(progress_entries, d, u).percentage >= th }
        IN  /\ FinishedBookIds(progress_entries, u, th) = resumed
            /\ get_total_books_finished(progress_entries, u, th) = Cardinality(resumed)

\* Two devices of the reader report a document in the same second, one
\* below and one at the threshold 0.30, and the count follows the entry
\* that get_latest_progress returns.
C32_Witness ==
    \E d \in Documents :
        LET mine == SelectSeq(progress_entries, LAMBDA p : p.user_id = "U1" /\ p.document_id = d)
        IN  /\ Len(mine) = 2
            /\ mine[1].timestamp = mine[2].timestamp
            /\ mine[1].percentage < 30 /\ mine[2].percentage >= 30
            /\ get_latest_progress(progress_entries, d, "U1") = mine[1]
            /\ d \notin FinishedBookIds(progress_entries, "U1", 30)

\* ------------------------------- activity and finished (SpecActivity)
RECURSIVE SumOfCounts(_)
SumOfCounts(items) == IF items = <<>> THEN 0 ELSE Head(items)[2] + SumOfCounts(Tail(items))

\* C33: for every user and period the counts of the buckets of
\* get_reading_activity_over_time add up to get_total_books_finished with
\* the default threshold 0.95.
C33_ActivitySumsToFinished ==
    \A u \in Users, period \in Periods :
        SumOfCounts(get_reading_activity_over_time(progress_entries, u, period))
            = get_total_books_finished(progress_entries, u, 95)

\* The reader has a document at exactly 0.95 and another at 0.94: one
\* finished book, in one bucket.
C33_Witness ==
    /\ { Snapshot("U1")[i].percentage : i \in 1..Len(Snapshot("U1")) } = {94, 95}
    /\ Cardinality({ Snapshot("U1")[i].document_id : i \in 1..Len(Snapshot("U1")) }) = 2
    /\ Len(Snapshot("U1")) = 2
    /\ get_total_books_finished(progress_entries, "U1", 95) = 1
    /\ Len(get_reading_activity_over_time(progress_entries, "U1", "month")) = 1

\* ------------------------------- finished and started (SpecStats)
\* finish_threshold arguments above 0, in hundredths.
PositiveThresholds == {1, 30, 95}

\* C34: for every user and every threshold above 0, get_total_books_finished
\* is at most get_total_books_started, and every finished document has an
\* entry of the user above 0.
C34_FinishedAtMostStarted ==
    \A u \in Users, th \in PositiveThresholds :
        /\ get_total_books_finished(progress_entries, u, th)
              <= get_total_books_started(progress_entries, u)
        /\ FinishedBookIds(progress_entries, u, th)
              \subseteq DocumentsWith(u, LAMBDA p : p.percentage > 0)

\* The reader has started and finished one document; a second document,
\* whose entries are at 0, counts as finished at threshold 0 only and is
\* not started.
C34_Witness ==
    /\ get_total_books_started(progress_entries, "U1") = 1
    /\ get_total_books_finished(progress_entries, "U1", 95) = 1
    /\ get_total_books_finished(progress_entries, "U1", 0) = 2

\* ------------------------------- InMemoryBookRepository (SpecLibrary)
\* Book.id values are the document ids of the progress entries
\* ("document_id in Progress is Book.id"); Book.document_id is a string.
BookIds == Documents
DocumentIds == {"a", "b"}
Titles == {"t", "u"}
BookInputs == [id : BookIds, document_id : DocumentIds, title : Titles]

BookNotFoundError == "BookNotFoundError"
BookAlreadyExistsError == "BookAlreadyExistsError"

\* d[key] = value and del d[key] on a dict.
SetItem(d, key, value) == [k \in DOMAIN d \cup {key} |-> IF k = key THEN value ELSE d[k]]
DelItem(d, key) == [k \in DOMAIN d \ {key} |-> d[k]]

\* list.remove(value): drops the first occurrence.
RECURSIVE ListRemove(_, _)
ListRemove(list, value) ==
    IF list = <<>> THEN <<>>
    ELSE IF Head(list) = value THEN Tail(list)
    ELSE <<Head(list)>> \o ListRemove(Tail(list), value)

InList(list, value) == \E i \in 1..Len(list) : list[i] = value

Library(b, idx, order, raised) == [books |-> b, books_by_doc_id |-> idx, book_order_for_listing |-> order, raised |-> raised]

\* create_book(book) on the three structures.
create_book(b, idx, order, book) ==
    IF book.id \in DOMAIN b THEN Library(b, idx, order, BookAlreadyExistsError)
    ELSE IF book.document_id \in DOMAIN idx THEN Library(b, idx, order, BookAlreadyExistsError)
    ELSE LET new_book == Copy(book)
         IN  Library(SetItem(b, new_book.id, new_book),
                     SetItem(idx, new_book.document_id, new_book.id),
                     IF ~InList(order, new_book.id) THEN Append(order, new_book.id) ELSE order,
                     None)

\* update_book without line 93: the key of the original document_id stays
\* in the index.
update_book_keeps_old_key(b, idx, order, book) ==
    IF book.id \notin DOMAIN b THEN Library(b, idx, order, BookNotFoundError)
    ELSE LET original_book == b[book.id]
         IN  IF original_book.document_id # book.document_id
             THEN IF book.document_id \in DOMAIN idx /\ idx[book.document_id] # book.id
                  THEN Library(b, idx, order, BookAlreadyExistsError)
                  ELSE Library(SetItem(b, book.id, Copy(book)),
                               SetItem(idx, book.document_id, book.id), order, None)
             ELSE Library(SetItem(b, book.id, Copy(book)), idx, order, None)

\* update_book(book) on the three structures.
update_book(b, idx, order, book) ==
    IF book.id \notin DOMAIN b THEN Library(b, idx, order, BookNotFoundError)
    ELSE LET original_book == b[book.id]
         IN  IF original_book.document_id # book.document_id
             THEN IF book.document_id \in DOMAIN idx /\ idx[book.document_id] # book.id
                  THEN Library(b, idx, order, BookAlreadyExistsError)
                  ELSE Library(SetItem(b, book.id, Copy(book)),
                               SetItem(DelItem(idx, original_book.document_id),
                                       book.document_id, book.id),
                               order, None)
             ELSE Library(SetItem(b, book.id, Copy(book)), idx, order, None)

\* delete_book(book_id) on the three structures.
delete_book(b, idx, order, book_id) ==
    IF book_id \notin DOMAIN b THEN Library(b, idx, order, BookNotFoundError)
    ELSE LET book_to_delete == b[book_id]
         IN  Library(DelItem(b, book_id),
                     IF book_to_delete.document_id \in DOMAIN idx
                     THEN DelItem(idx, book_to_delete.document_id) ELSE idx,
                     IF InList(order, book_id) THEN ListRemove(order, book_id) ELSE order,
                     None)

\* One whole call on the book repository; result is the Library record of
\* the call.
LibraryCall(op, arg, result) ==
    /\ ncalls < MaxCalls
    /\ books' = result.books
    /\ books_by_doc_id' = result.books_by_doc_id
    /\ book_order_for_listing' = result.book_order_for_listing
    /\ last' = [op |-> op, arg |-> arg, raised |-> result.raised,
                before |-> Library(books, books_by_doc_id, book_order_for_listing, None)]
    /\ ncalls' = ncalls + 1
    /\ UNCHANGED <<progress_entries, submitted, thread, published>>

CreateBook(book) ==
    LibraryCall("create_book", book,
                create_book(books, books_by_doc_id, book_order_for_listing, book))

UpdateBook(book) ==
    LibraryCall("update_book", book,
                update_book(books, books_by_doc_id, book_order_for_listing, book))

DeleteBook(book_id) ==
    LibraryCall("delete_book", book_id,
                delete_book(books, books_by_doc_id, book_order_for_listing, book_id))

NextLibrary ==
    \/ \E book \in BookInputs : CreateBook(book)
    \/ \E book \in BookInputs : UpdateBook(book)
    \/ \E book_id \in BookIds : DeleteBook(book_id)

SpecLibrary == Init /\ [][NextLibrary]_vars

\* The call recorded in last was made on the book repository.
LibraryCalled == last.op \in {"create_book", "update_book", "delete_book"}

\* C35: after any sequence of create_book, update_book and delete_book
\* calls, the document_id index has exactly the document_ids of the stored
\* books as keys and maps each to the id of its book, the listing order
\* holds exactly the ids of the stored books, each once, and a call that
\* raised BookAlreadyExistsError or BookNotFoundError left the three
\* structures as they were before it.
C35_LibraryStructuresConsistent ==
    /\ DOMAIN books_by_doc_id = { books[id].document_id : id \in DOMAIN books }
    /\ \A id \in DOMAIN books :
          /\ books[id].id = id
          /\ books_by_doc_id[books[id].document_id] = id
    /\ { book_order_for_listing[i] : i \in 1..Len(book_order_for_listing) } = DOMAIN books
    /\ Len(book_order_for_listing) = Cardinality(DOMAIN books)
    /\ (LibraryCalled /\ last.raised # None) =>
          Library(books, books_by_doc_id, book_order_for_listing, None) = last.before

\* Two books are stored; the last call was an update_book that moved a
\* book to the document_id of the other and raised BookAlreadyExistsError.
C35_Witness ==
    /\ LibraryCalled
    /\ last.op = "update_book"
    /\ last.raised = BookAlreadyExistsError
    /\ Cardinality(DOMAIN books) = 2
    /\ last.arg.id \in DOMAIN books
    /\ books[last.arg.id].document_id # last.arg.document_id

====
